---- MODULE Spec2Model ----
(***************************************************************************)
(* Model of sentencepiece::TrainerInterface (src/src/trainer_interface.h): *)
(* the LevelDB-backed sentence store, the generic Sorted ordering, and the *)
(* ingestion and whitespace-splitting phases that write to the store.      *)
(*                                                                         *)
(* Strings are sequences of byte values; a Sentence is the pair            *)
(* (first, second) of std::pair<std::string, int64_t>.                     *)
(***************************************************************************)
EXTENDS FiniteSets, Integers, Sequences

VARIABLES
    db,             \* contents of the LevelDB at "sentences_db": key -> value
    current_index_, \* TrainerInterface::current_index_
    result,         \* outcome of the last public call (return value or exception)
    instance,       \* how many TrainerInterface objects have been constructed
    mine,           \* ids this instance has inserted or updated
    ever,           \* ids any instance has inserted or updated
    stored,         \* id -> Sentence put by addSentenceToDB, not updated/deleted since
    adds,           \* successful addSentenceToDB calls of this instance
    pristine,       \* store was empty at construction, only insertions since
    sorted_m,       \* argument m of the last Sorted call
    sorted_v,       \* vector returned by the last Sorted call (in a 1-element list)
    lines,          \* lines the sentence source has not delivered yet
    input_sentence_size, \* trainer_spec_.input_sentence_size(), the cap N
    load_pc,        \* position of LoadSentences: "idle", "loading", "done", "failed"
    seen,           \* non-empty lines LoadSentences has read
    required_chars_, \* TrainerInterface::required_chars_
    self_test_samples_, \* TrainerInterface::self_test_samples_
    split_before,   \* store contents when SplitSentencesByWhitespace last began
    trainer_spec_,  \* TrainerInterface::trainer_spec_, the fields read here
    meta_pieces_,   \* TrainerInterface::meta_pieces_: vocab id -> (piece, type)
    final_pieces_,  \* TrainerInterface::final_pieces_: (piece, score) in order
    status_,        \* status returned by InitMetaPieces or Serialize
    model_proto,    \* pieces of the ModelProto written by Serialize, by vocab id
    piece_pc,       \* "new", "meta", "trained", "serialized" or "failed"
    is_valid        \* outcome of the last IsValidSentencePiece call

storeVars == <<db, current_index_, result, instance, mine, ever, stored, adds, pristine>>
sortedVars == <<sorted_m, sorted_v>>
loadVars == <<lines, input_sentence_size, load_pc, seen, required_chars_,
              self_test_samples_>>
pieceVars == <<trainer_spec_, meta_pieces_, final_pieces_, status_, model_proto,
               piece_pc, is_valid>>
otherVars == <<sortedVars, loadVars, split_before, pieceVars>>
vars == <<storeVars, otherVars>>

----------------------------------------------------------------------------
(* Bounds of the model *)

MaxIndex == 2       \* insertions per instance
MaxInstances == 2   \* trainer objects constructed one after another
MaxScanIndex == 11  \* insertions before a full scan
MaxSplitIndex == 3  \* largest current_index_ at which the split phase is entered
MaxLines == 3       \* lines in the sentence source
MaxCap == 2         \* largest input_sentence_size
MaxSelfTest == 1    \* self_test_sample_size
MaxSortLen == 3     \* pairs in an argument of Sorted
MaxSortValue == 1   \* largest value in an argument of Sorted
MaxControl == 2     \* configured control pieces
MaxUserDefined == 1 \* configured user-defined pieces
MaxFinal == 2       \* final pieces a training run hands over
MaxVocab == 4       \* largest configured vocabulary size
MaxPieceLen == 3    \* code points of a piece handed to IsValidSentencePiece
MaxPieceLimit == 2  \* largest max_sentencepiece_length

----------------------------------------------------------------------------
(* Bytes and strings *)

NUL == 0            \* '\0', the separator between text and count
CharA == 97         \* 'a'
CharZero == 48      \* '0'
CharSpace == 32     \* ' '
CharMinus == 45     \* '-'
CharPlus == 43      \* '+'

\* sentences handed to the store: an empty text, a plain text with two
\* different counts, and a text holding the separator byte
Sentences ==
    {[first |-> <<>>, second |-> 1],
     [first |-> <<CharA>>, second |-> 1],
     [first |-> <<CharA>>, second |-> 2],
     [first |-> <<NUL>>, second |-> 1]}

Ids == 0..(MaxIndex - 1)

\* std::isspace in the "C" locale, as used by strtoll
IsSpace(c) == c \in {9, 10, 11, 12, 13, CharSpace}

IsDigit(c) == c >= CharZero /\ c <= CharZero + 9

\* std::to_string of an integer: decimal digits, no padding
RECURSIVE to_string(_)
to_string(n) ==
    IF n < 0 THEN <<CharMinus>> \o to_string(-n)
    ELSE IF n < 10 THEN <<CharZero + n>>
    ELSE Append(to_string(n \div 10), CharZero + (n % 10))

npos == -1

\* std::string::find(ch): 0-based position of the first occurrence, or npos
Find(s, ch) ==
    IF \E i \in 1..Len(s) : s[i] = ch
    THEN (CHOOSE i \in 1..Len(s) : s[i] = ch /\ \A j \in 1..(i - 1) : s[j] # ch) - 1
    ELSE npos

\* std::string::substr(pos) and substr(0, pos), 0-based
SubstrFrom(s, pos) == SubSeq(s, pos + 1, Len(s))
SubstrTo(s, pos) == SubSeq(s, 1, pos)

\* value of the digit run s[i..] (1-based), continuing the accumulator acc
RECURSIVE DigitRun(_, _, _)
DigitRun(s, i, acc) ==
    IF i > Len(s) \/ ~IsDigit(s[i]) THEN acc
    ELSE DigitRun(s, i + 1, acc * 10 + (s[i] - CharZero))

\* std::stoll: skip leading whitespace, optional sign, longest digit run;
\* no digits -> std::invalid_argument.  (std::out_of_range needs a run of
\* 19 digits or more; stored values here are far shorter.)
Stoll(s) ==
    LET start == IF \E i \in 1..Len(s) : ~IsSpace(s[i])
                 THEN CHOOSE i \in 1..Len(s) :
                        ~IsSpace(s[i]) /\ \A j \in 1..(i - 1) : IsSpace(s[j])
                 ELSE Len(s) + 1
        signed == start <= Len(s) /\ s[start] \in {CharMinus, CharPlus}
        neg == signed /\ s[start] = CharMinus
        first == IF signed THEN start + 1 ELSE start
        mag == DigitRun(s, first, 0)
    IN  IF first > Len(s) \/ ~IsDigit(s[first])
        THEN [status |-> "invalid_argument", val |-> 0]
        ELSE [status |-> "ok", val |-> IF neg THEN -mag ELSE mag]

\* the value string written for a Sentence
EncodeValue(sentence) == sentence.first \o <<NUL>> \o to_string(sentence.second)

\* parsing that reports a value without separator as a missing record
DecodeValue_NotFound(value) ==
    LET pos == Find(value, NUL)
    IN  IF pos = npos
        THEN [status |-> "out_of_range", value |-> <<>>]
        ELSE LET sentence == SubstrTo(value, pos)
                 count == Stoll(SubstrFrom(value, pos + 1))
             IN  IF count.status # "ok"
                 THEN [status |-> count.status, value |-> <<>>]
                 ELSE [status |-> "ok",
                       value |-> <<[first |-> sentence, second |-> count.val]>>]

\* parsing of a stored value back into a Sentence
DecodeValue(value) ==
    LET pos == Find(value, NUL)
    IN  IF pos = npos
        THEN [status |-> "runtime_error", value |-> <<>>]
        ELSE LET sentence == SubstrTo(value, pos)
                 count == Stoll(SubstrFrom(value, pos + 1))
             IN  IF count.status # "ok"
                 THEN [status |-> count.status, value |-> <<>>]
                 ELSE [status |-> "ok",
                       value |-> <<[first |-> sentence, second |-> count.val]>>]

\* leveldb::BytewiseComparator: lexicographic order on the key bytes
BytewiseLess(a, b) ==
    \E i \in 1..(Len(a) + 1) :
        /\ i <= Len(b)
        /\ \A j \in 1..(i - 1) : j <= Len(a) /\ a[j] = b[j]
        /\ (i = Len(a) + 1 \/ (i <= Len(a) /\ a[i] < b[i]))

\* the keys of a store in the order a leveldb::Iterator visits them
RECURSIVE IterationOrder(_)
IterationOrder(keys) ==
    IF keys = {} THEN <<>>
    ELSE LET k == CHOOSE x \in keys : \A y \in keys \ {x} : BytewiseLess(x, y)
         IN  <<k>> \o IterationOrder(keys \ {k})

----------------------------------------------------------------------------
(* The store handle: leveldb::DB *)

Put(store, key, value) ==
    [k \in DOMAIN store \cup {key} |-> IF k = key THEN value ELSE store[k]]

Delete(store, key) == [k \in DOMAIN store \ {key} |-> store[k]]

EmptyDB == [k \in {} |-> <<>>]

NoResult == [op |-> "none", index |-> 0, status |-> "ok",
             value |-> <<>>, keys |-> <<>>, count |-> 0]

----------------------------------------------------------------------------
(* Sorted, for K = std::string *)

\* a comparator that forgets the tie-break on the key
SortedLess_NoTieBreak(p1, p2) == p1.second > p2.second

\* the comparator handed to std::sort
SortedLess(p1, p2) ==
    \/ p1.second > p2.second
    \/ (p1.second = p2.second /\ BytewiseLess(p1.first, p2.first))

\* std::sort step: p goes in front of the first element it is less than
RECURSIVE SortInsert(_, _)
SortInsert(sorted, p) ==
    IF sorted = <<>> THEN <<p>>
    ELSE IF SortedLess(p, Head(sorted)) THEN <<p>> \o sorted
    ELSE <<Head(sorted)>> \o SortInsert(Tail(sorted), p)

RECURSIVE SortFrom(_, _)
SortFrom(sorted, rest) ==
    IF rest = <<>> THEN sorted
    ELSE SortFrom(SortInsert(sorted, Head(rest)), Tail(rest))

\* Sorted(const std::vector<std::pair<K, V>> &m)
Sorted(m) == SortFrom(<<>>, m)

\* the orders in which a flat_hash_map holding the pairs of m may be iterated
Permutations(m) ==
    {[i \in 1..Len(m) |-> m[f[i]]] :
        f \in {g \in [1..Len(m) -> 1..Len(m)] :
                  \A i, j \in 1..Len(m) : g[i] = g[j] => i = j}}

SortKeys == {<<>>, <<CharA>>, <<CharA, CharA>>, <<CharA + 1>>}

SortPairs == {[first |-> k, second |-> x] : k \in SortKeys, x \in 0..MaxSortValue}

RECURSIVE Lists(_, _)
Lists(elems, n) ==
    IF n = 0 THEN {<<>>}
    ELSE LET shorter == Lists(elems, n - 1)
         IN  shorter \cup {Append(l, e) : l \in shorter, e \in elems}

\* Sorted called on the vector m
SortedOfVector ==
    /\ sorted_v = <<>>
    /\ sorted_v' = <<Sorted(sorted_m)>>
    /\ UNCHANGED sorted_m

\* Sorted called on a flat_hash_map holding the pairs of m (keys distinct)
SortedOfMap ==
    /\ sorted_v = <<>>
    /\ \A i, j \in 1..Len(sorted_m) :
          sorted_m[i].first = sorted_m[j].first => i = j
    /\ \E v \in Permutations(sorted_m) : sorted_v' = <<Sorted(v)>>
    /\ UNCHANGED sorted_m

----------------------------------------------------------------------------
(* Construction *)

StoreInit ==
    /\ db = EmptyDB
    /\ current_index_ = 0
    /\ result = NoResult
    /\ instance = 1
    /\ mine = {}
    /\ ever = {}
    /\ stored = EmptyDB
    /\ adds = 0
    /\ pristine = TRUE

LoadIdle ==
    /\ lines = <<>>
    /\ input_sentence_size = 1
    /\ load_pc = "idle"
    /\ seen = 0
    /\ required_chars_ = EmptyDB
    /\ self_test_samples_ = <<>>

\* TrainerSpec defaults of the fields the model reads
DefaultTrainerSpec ==
    [unk_piece |-> "<unk>", control_symbols |-> <<>>,
     user_defined_symbols |-> <<>>, vocab_size |-> 1,
     max_sentencepiece_length |-> 1, split_by_whitespace |-> TRUE,
     split_by_unicode_script |-> TRUE]

NoValid == [op |-> "none", piece |-> <<>>, value |-> FALSE]

PieceIdle ==
    /\ trainer_spec_ = DefaultTrainerSpec
    /\ meta_pieces_ = EmptyDB
    /\ final_pieces_ = <<>>
    /\ status_ = "ok"
    /\ model_proto = <<>>
    /\ piece_pc = "new"
    /\ is_valid = NoValid

Init ==
    /\ StoreInit
    /\ sorted_m = <<>>
    /\ sorted_v = <<>>
    /\ LoadIdle
    /\ split_before = EmptyDB
    /\ PieceIdle

\* a construction that starts from an empty database
Reconstruct_FreshStore ==
    /\ instance' = instance + 1
    /\ current_index_' = 0
    /\ db' = EmptyDB
    /\ result' = NoResult
    /\ mine' = {}
    /\ stored' = EmptyDB
    /\ adds' = 0
    /\ pristine' = TRUE
    /\ UNCHANGED ever

\* ~TrainerInterface() followed by the construction of a new trainer:
\* the database at "sentences_db" is reopened, the members start afresh
Reconstruct ==
    /\ instance' = instance + 1
    /\ current_index_' = 0
    /\ db' = db
    /\ result' = NoResult
    /\ mine' = {}
    /\ stored' = EmptyDB
    /\ adds' = 0
    /\ pristine' = (DOMAIN db = {})
    /\ UNCHANGED ever

----------------------------------------------------------------------------
(* Public store operations; ok is the leveldb::Status of the call *)

\* addSentenceToDB with ++current_index_ ahead of the status test
addSentenceToDB_IncrementFirst(sentence, ok) ==
    LET key == to_string(current_index_)
        value == EncodeValue(sentence)
    IN  IF ~ok
        THEN /\ result' = [NoResult EXCEPT !.op = "add", !.index = current_index_,
                                           !.status = "runtime_error"]
             /\ current_index_' = current_index_ + 1
             /\ UNCHANGED <<db, instance, mine, ever, stored, adds, pristine>>
        ELSE /\ db' = Put(db, key, value)
             /\ current_index_' = current_index_ + 1
             /\ result' = [NoResult EXCEPT !.op = "add", !.index = current_index_]
             /\ mine' = mine \cup {current_index_}
             /\ ever' = ever \cup {current_index_}
             /\ stored' = Put(stored, current_index_, sentence)
             /\ adds' = adds + 1
             /\ UNCHANGED <<instance, pristine>>

\* addSentenceToDB without ++current_index_
addSentenceToDB_NoIncrement(sentence, ok) ==
    LET key == to_string(current_index_)
        value == EncodeValue(sentence)
    IN  IF ~ok
        THEN /\ result' = [NoResult EXCEPT !.op = "add", !.index = current_index_,
                                           !.status = "runtime_error"]
             /\ UNCHANGED <<db, current_index_, instance, mine, ever, stored,
                            adds, pristine>>
        ELSE /\ db' = Put(db, key, value)
             /\ result' = [NoResult EXCEPT !.op = "add", !.index = current_index_]
             /\ mine' = mine \cup {current_index_}
             /\ ever' = ever \cup {current_index_}
             /\ stored' = Put(stored, current_index_, sentence)
             /\ adds' = adds + 1
             /\ UNCHANGED <<current_index_, instance, pristine>>

addSentenceToDB(sentence, ok) ==
    LET key == to_string(current_index_)
        value == EncodeValue(sentence)
    IN  IF ~ok
        THEN /\ result' = [NoResult EXCEPT !.op = "add", !.index = current_index_,
                                           !.status = "runtime_error"]
             /\ UNCHANGED <<db, current_index_, instance, mine, ever, stored,
                            adds, pristine>>
        ELSE /\ db' = Put(db, key, value)
             /\ current_index_' = current_index_ + 1
             /\ result' = [NoResult EXCEPT !.op = "add", !.index = current_index_]
             /\ mine' = mine \cup {current_index_}
             /\ ever' = ever \cup {current_index_}
             /\ stored' = Put(stored, current_index_, sentence)
             /\ adds' = adds + 1
             /\ UNCHANGED <<instance, pristine>>

\* removeSentenceFromDB that deletes the key after the one asked for
removeSentenceFromDB_OffByOne(index, ok) ==
    LET key == to_string(index + 1)
    IN  IF ~ok
        THEN /\ result' = [NoResult EXCEPT !.op = "remove", !.index = index,
                                           !.status = "runtime_error"]
             /\ UNCHANGED <<db, current_index_, instance, mine, ever, stored,
                            adds, pristine>>
        ELSE /\ db' = Delete(db, key)
             /\ result' = [NoResult EXCEPT !.op = "remove", !.index = index]
             /\ stored' = Delete(stored, index)
             /\ pristine' = FALSE
             /\ UNCHANGED <<current_index_, instance, mine, ever, adds>>

removeSentenceFromDB(index, ok) ==
    LET key == to_string(index)
    IN  IF ~ok
        THEN /\ result' = [NoResult EXCEPT !.op = "remove", !.index = index,
                                           !.status = "runtime_error"]
             /\ UNCHANGED <<db, current_index_, instance, mine, ever, stored,
                            adds, pristine>>
        ELSE /\ db' = Delete(db, key)
             /\ result' = [NoResult EXCEPT !.op = "remove", !.index = index]
             /\ stored' = Delete(stored, index)
             /\ pristine' = FALSE
             /\ UNCHANGED <<current_index_, instance, mine, ever, adds>>

updateSentenceInDB(index, newSentence, ok) ==
    LET key == to_string(index)
        value == EncodeValue(newSentence)
    IN  IF ~ok
        THEN /\ result' = [NoResult EXCEPT !.op = "update", !.index = index,
                                           !.status = "runtime_error"]
             /\ UNCHANGED <<db, current_index_, instance, mine, ever, stored,
                            adds, pristine>>
        ELSE /\ db' = Put(db, key, value)
             /\ result' = [NoResult EXCEPT !.op = "update", !.index = index,
                                           !.value = <<newSentence>>]
             /\ mine' = mine \cup {index}
             /\ ever' = ever \cup {index}
             /\ stored' = Delete(stored, index)
             /\ pristine' = FALSE
             /\ UNCHANGED <<current_index_, instance, adds>>

\* getSentenceFromDB without the !s.ok() test: a missing key is parsed as ""
Get_NoStatusCheck(store, index, ok) ==
    LET key == to_string(index)
    IN  IF ~ok \/ key \notin DOMAIN store
        THEN DecodeValue(<<>>)
        ELSE DecodeValue(store[key])

\* what getSentenceFromDB(index) returns or throws on a given store;
\* ok = FALSE is a read the storage medium fails
Get(store, index, ok) ==
    LET key == to_string(index)
    IN  IF ~ok \/ key \notin DOMAIN store
        THEN [status |-> "out_of_range", value |-> <<>>]
        ELSE DecodeValue(store[key])

getSentenceFromDB(index, ok) ==
    LET r == Get(db, index, ok)
    IN  /\ result' = [NoResult EXCEPT !.op = "get", !.index = index,
                                      !.status = r.status, !.value = r.value]
        /\ UNCHANGED <<db, current_index_, instance, mine, ever, stored,
                       adds, pristine>>

getDBSize(ok) ==
    /\ result' = IF ok
                 THEN [NoResult EXCEPT !.op = "size",
                                       !.count = Len(IterationOrder(DOMAIN db))]
                 ELSE [NoResult EXCEPT !.op = "size", !.status = "runtime_error"]
    /\ UNCHANGED <<db, current_index_, instance, mine, ever, stored,
                   adds, pristine>>

\* the loop of loadSentencesFromDB over the keys still to visit
RECURSIVE LoadLoop(_, _, _, _)
LoadLoop(store, keys, visited, printed) ==
    IF keys = <<>>
    THEN [status |-> "ok", keys |-> visited, value |-> printed]
    ELSE LET r == DecodeValue(store[Head(keys)])
         IN  IF r.status # "ok"
             THEN [status |-> r.status, keys |-> Append(visited, Head(keys)),
                   value |-> printed]
             ELSE LoadLoop(store, Tail(keys), Append(visited, Head(keys)),
                           printed \o r.value)

loadSentencesFromDB(ok) ==
    LET r == LoadLoop(db, IterationOrder(DOMAIN db), <<>>, <<>>)
    IN  /\ result' = IF ok
                     THEN [NoResult EXCEPT !.op = "load", !.status = r.status,
                                           !.keys = r.keys, !.value = r.value]
                     ELSE [NoResult EXCEPT !.op = "load", !.status = "runtime_error"]
        /\ UNCHANGED <<db, current_index_, instance, mine, ever, stored,
                       adds, pristine>>

----------------------------------------------------------------------------
(* LoadSentences: one step per line of the source *)

CharLF == 10        \* '\n'
CharCR == 13        \* '\r'

\* a line without its trailing line terminators
RECURSIVE TrimLineEnd(_)
TrimLineEnd(line) ==
    IF line # <<>> /\ line[Len(line)] \in {CharLF, CharCR}
    THEN TrimLineEnd(SubSeq(line, 1, Len(line) - 1))
    ELSE line

\* required_chars_ after counting the characters of a line
RECURSIVE CountChars(_, _)
CountChars(chars, line) ==
    IF line = <<>> THEN chars
    ELSE LET c == Head(line)
             n == IF c \in DOMAIN chars THEN chars[c] ELSE 0
         IN  CountChars(Put(chars, c, n + 1), Tail(line))

\* the reservoir of self-test samples after a line: kept, replaced, or left
SampleChoices(samples, line) ==
    IF Len(samples) < MaxSelfTest
    THEN {Append(samples, line)}
    ELSE {samples} \cup {[samples EXCEPT ![i] = line] : i \in 1..Len(samples)}

LoadBegin ==
    /\ load_pc = "idle"
    /\ load_pc' = IF input_sentence_size = 0 THEN "failed" ELSE "loading"
    /\ UNCHANGED <<lines, input_sentence_size, seen, required_chars_,
                   self_test_samples_>>
    /\ UNCHANGED storeVars

\* a step that stores the line although input_sentence_size are stored
LoadLine_NoCap(ok) ==
    /\ load_pc = "loading"
    /\ lines # <<>>
    /\ lines' = Tail(lines)
    /\ LET line == TrimLineEnd(Head(lines))
       IN  IF line = <<>>
           THEN /\ UNCHANGED <<load_pc, seen, required_chars_, self_test_samples_>>
                /\ UNCHANGED storeVars
           ELSE /\ seen' = seen + 1
                /\ required_chars_' = CountChars(required_chars_, line)
                /\ self_test_samples_' \in SampleChoices(self_test_samples_, line)
                /\ addSentenceToDB([first |-> line, second |-> 1], ok)
                /\ load_pc' = IF ok THEN load_pc ELSE "failed"
    /\ UNCHANGED input_sentence_size

LoadLine(ok) ==
    /\ load_pc = "loading"
    /\ lines # <<>>
    /\ lines' = Tail(lines)
    /\ LET line == TrimLineEnd(Head(lines))
       IN  IF line = <<>>
           THEN /\ UNCHANGED <<load_pc, seen, required_chars_, self_test_samples_>>
                /\ UNCHANGED storeVars
           ELSE /\ seen' = seen + 1
                /\ required_chars_' = CountChars(required_chars_, line)
                /\ self_test_samples_' \in SampleChoices(self_test_samples_, line)
                /\ IF current_index_ < input_sentence_size
                   THEN /\ addSentenceToDB([first |-> line, second |-> 1], ok)
                        /\ load_pc' = IF ok THEN load_pc ELSE "failed"
                   ELSE /\ UNCHANGED load_pc
                        /\ UNCHANGED storeVars
    /\ UNCHANGED input_sentence_size

LoadEnd ==
    /\ load_pc = "loading"
    /\ lines = <<>>
    /\ load_pc' = "done"
    /\ UNCHANGED <<lines, input_sentence_size, seen, required_chars_,
                   self_test_samples_>>
    /\ UNCHANGED storeVars

----------------------------------------------------------------------------
(* SplitSentencesByWhitespace *)

\* the maximal runs of non-whitespace bytes of a text, in order;
\* word is the run being read, words the runs already closed
RECURSIVE SplitIntoWords(_, _, _)
SplitIntoWords(text, word, words) ==
    IF text = <<>>
    THEN IF word = <<>> THEN words ELSE Append(words, word)
    ELSE IF IsSpace(Head(text))
    THEN SplitIntoWords(Tail(text), <<>>,
                        IF word = <<>> THEN words ELSE Append(words, word))
    ELSE SplitIntoWords(Tail(text), Append(word, Head(text)), words)

\* tokens[w] += 1: adding 1 per word instead of the sentence's count
RECURSIVE AddWords_CountOne(_, _, _)
AddWords_CountOne(tokens, words, count) ==
    IF words = <<>> THEN tokens
    ELSE LET w == Head(words)
             n == IF w \in DOMAIN tokens THEN tokens[w] ELSE 0
         IN  AddWords_CountOne(Put(tokens, w, n + 1), Tail(words), count)

\* tokens[w] += count for every word w of the list
RECURSIVE AddWords(_, _, _)
AddWords(tokens, words, count) ==
    IF words = <<>> THEN tokens
    ELSE LET w == Head(words)
             n == IF w \in DOMAIN tokens THEN tokens[w] ELSE 0
         IN  AddWords(Put(tokens, w, n + count), Tail(words), count)

\* the token table built from the sentences read from the store
RECURSIVE Tokenize(_, _)
Tokenize(tokens, sentences) ==
    IF sentences = <<>> THEN tokens
    ELSE Tokenize(AddWords(tokens, SplitIntoWords(Head(sentences).first, <<>>, <<>>),
                           Head(sentences).second),
                  Tail(sentences))

\* the token table as a list of pairs, in some iteration order of the table
TokenPairs(tokens) ==
    LET order == IterationOrder(DOMAIN tokens)
    IN  [i \in 1..Len(order) |-> [first |-> order[i], second |-> tokens[order[i]]]]

\* the store after addSentenceToDB of each sentence of a list, from index
RECURSIVE PutAll(_, _, _)
PutAll(store, index, sentences) ==
    IF sentences = <<>> THEN store
    ELSE PutAll(Put(store, to_string(index), EncodeValue(Head(sentences))),
                index + 1, Tail(sentences))

\* ok = FALSE is a scan the storage medium fails
SplitSentencesByWhitespace(ok) ==
    LET read == LoadLoop(db, IterationOrder(DOMAIN db), <<>>, <<>>)
        tokens == Sorted(TokenPairs(Tokenize(EmptyDB, read.value)))
    IN  IF ~ok \/ read.status # "ok"
        THEN /\ result' = [NoResult EXCEPT !.op = "split",
                             !.status = IF ok THEN read.status ELSE "runtime_error"]
             /\ UNCHANGED <<db, current_index_, instance, mine, ever, stored,
                            adds, pristine, split_before>>
        ELSE /\ split_before' = db
             /\ db' = PutAll(EmptyDB, current_index_, tokens)
             /\ current_index_' = current_index_ + Len(tokens)
             /\ adds' = adds + Len(tokens)
             /\ result' = [NoResult EXCEPT !.op = "split", !.value = tokens]
             /\ mine' = mine \cup {current_index_ + i - 1 : i \in 1..Len(tokens)}
             /\ ever' = ever \cup {current_index_ + i - 1 : i \in 1..Len(tokens)}
             /\ stored' = [i \in {current_index_ + j - 1 : j \in 1..Len(tokens)} |->
                              tokens[i - current_index_ + 1]]
             /\ pristine' = FALSE
             /\ UNCHANGED instance

----------------------------------------------------------------------------
(* Specifications *)

\* the store operations of one trainer after another, in any order
Next ==
    \/ \E s \in Sentences, ok \in BOOLEAN :
          /\ current_index_ < MaxIndex
          /\ addSentenceToDB(s, ok)
          /\ UNCHANGED otherVars
    \/ \E i \in Ids, ok \in BOOLEAN :
          removeSentenceFromDB(i, ok) /\ UNCHANGED otherVars
    \/ \E i \in Ids, s \in Sentences, ok \in BOOLEAN :
          updateSentenceInDB(i, s, ok) /\ UNCHANGED otherVars
    \/ \E i \in Ids, ok \in BOOLEAN :
          getSentenceFromDB(i, ok) /\ UNCHANGED otherVars
    \/ \E ok \in BOOLEAN : getDBSize(ok) /\ UNCHANGED otherVars
    \/ \E ok \in BOOLEAN : loadSentencesFromDB(ok) /\ UNCHANGED otherVars
    \/ instance < MaxInstances /\ Reconstruct /\ UNCHANGED otherVars

Spec == Init /\ [][Next]_vars

\* many insertions into an empty store, then full scans
ScanSentences == {[first |-> <<>>, second |-> 1], [first |-> <<CharA>>, second |-> 1]}

ScanNext ==
    \/ \E s \in ScanSentences, ok \in BOOLEAN :
          /\ current_index_ < MaxScanIndex
          /\ addSentenceToDB(s, ok)
          /\ UNCHANGED otherVars
    \/ \E ok \in BOOLEAN : loadSentencesFromDB(ok) /\ UNCHANGED otherVars

ScanSpec == Init /\ [][ScanNext]_vars

\* Sorted applied to every list of at most MaxSortLen pairs
SortedInit ==
    /\ StoreInit
    /\ sorted_m \in Lists(SortPairs, MaxSortLen)
    /\ sorted_v = <<>>
    /\ LoadIdle
    /\ split_before = EmptyDB
    /\ PieceIdle

SortedNext ==
    \/ SortedOfVector /\ UNCHANGED <<storeVars, loadVars, split_before, pieceVars>>
    \/ SortedOfMap /\ UNCHANGED <<storeVars, loadVars, split_before, pieceVars>>

SortedSpec == SortedInit /\ [][SortedNext]_vars

\* LoadSentences run once on every source of at most MaxLines lines
SourceLines == {<<>>, <<CharA>>, <<CharA + 1, CharLF>>, <<CharCR, CharLF>>}

LoadInit ==
    /\ StoreInit
    /\ sorted_m = <<>>
    /\ sorted_v = <<>>
    /\ lines \in Lists(SourceLines, MaxLines)
    /\ input_sentence_size \in 0..MaxCap
    /\ load_pc = "idle"
    /\ seen = 0
    /\ required_chars_ = EmptyDB
    /\ self_test_samples_ = <<>>
    /\ split_before = EmptyDB
    /\ PieceIdle

LoadNext ==
    \/ LoadBegin /\ UNCHANGED <<sortedVars, split_before, pieceVars>>
    \/ \E ok \in BOOLEAN : LoadLine(ok) /\ UNCHANGED <<sortedVars, split_before, pieceVars>>
    \/ LoadEnd /\ UNCHANGED <<sortedVars, split_before, pieceVars>>

LoadSpec == LoadInit /\ [][LoadNext]_vars

\* sentences are inserted, then SplitSentencesByWhitespace rewrites the store
SplitSentences ==
    {[first |-> <<CharA>>, second |-> 2],
     [first |-> <<CharA, CharSpace, CharA + 1>>, second |-> 1],
     [first |-> <<CharSpace, CharA + 1, CharSpace, CharSpace, CharA + 1>>, second |-> 1],
     [first |-> <<CharSpace>>, second |-> 1],
     [first |-> <<NUL>>, second |-> 1]}

SplitNext ==
    \/ \E s \in SplitSentences, ok \in BOOLEAN :
          /\ current_index_ < MaxSplitIndex
          /\ addSentenceToDB(s, ok)
          /\ UNCHANGED otherVars
    \/ \E ok \in BOOLEAN :
          /\ current_index_ <= MaxSplitIndex
          /\ SplitSentencesByWhitespace(ok)
          /\ UNCHANGED <<sortedVars, loadVars, pieceVars>>

SplitSpec == Init /\ [][SplitNext]_vars

\* The constructor opens whatever database lies at "sentences_db"
\* (create_if_missing only creates one when there is none), so a trainer
\* can start on records it did not write; OpenValues are the values such
\* a record may hold, with and without the separator.
OpenValues ==
    {<<>>, <<CharA>>, <<CharA, NUL, CharZero + 1>>, <<NUL, CharZero + 2>>}

OpenInit ==
    /\ db \in UNION {[keys -> OpenValues] :
                       keys \in SUBSET {to_string(i) : i \in Ids}}
    /\ current_index_ = 0
    /\ result = NoResult
    /\ instance = 1
    /\ mine = {}
    /\ ever = {i \in Ids : to_string(i) \in DOMAIN db}
    /\ stored = EmptyDB
    /\ adds = 0
    /\ pristine = (DOMAIN db = {})
    /\ sorted_m = <<>>
    /\ sorted_v = <<>>
    /\ LoadIdle
    /\ split_before = EmptyDB
    /\ PieceIdle

OpenNext ==
    \/ \E s \in ScanSentences, ok \in BOOLEAN :
          /\ current_index_ < MaxIndex
          /\ addSentenceToDB(s, ok)
          /\ UNCHANGED otherVars
    \/ \E i \in Ids, ok \in BOOLEAN :
          removeSentenceFromDB(i, ok) /\ UNCHANGED otherVars
    \/ \E i \in Ids, ok \in BOOLEAN :
          getSentenceFromDB(i, ok) /\ UNCHANGED otherVars

OpenSpec == OpenInit /\ [][OpenNext]_vars

----------------------------------------------------------------------------
(* InitMetaPieces, Train and Serialize *)

\* the configured pieces with user-defined pieces ahead of control pieces
MetaSymbols_UserFirst(spec) ==
    <<[first |-> spec.unk_piece, second |-> "UNKNOWN"]>>
      \o [i \in 1..Len(spec.user_defined_symbols) |->
            [first |-> spec.user_defined_symbols[i], second |-> "USER_DEFINED"]]
      \o [i \in 1..Len(spec.control_symbols) |->
            [first |-> spec.control_symbols[i], second |-> "CONTROL"]]

\* the configured pieces in the order InitMetaPieces registers them
MetaSymbols(spec) ==
    <<[first |-> spec.unk_piece, second |-> "UNKNOWN"]>>
      \o [i \in 1..Len(spec.control_symbols) |->
            [first |-> spec.control_symbols[i], second |-> "CONTROL"]]
      \o [i \in 1..Len(spec.user_defined_symbols) |->
            [first |-> spec.user_defined_symbols[i], second |-> "USER_DEFINED"]]

HasDuplicate(symbols) ==
    \E i, j \in 1..Len(symbols) : i # j /\ symbols[i].first = symbols[j].first

\* meta_pieces_[id++] = symbol, for every symbol in turn
RECURSIVE InsertMeta(_, _, _)
InsertMeta(symbols, id, table) ==
    IF symbols = <<>> THEN table
    ELSE InsertMeta(Tail(symbols), id + 1, Put(table, id, Head(symbols)))

InitMetaPieces ==
    /\ piece_pc = "new"
    /\ LET symbols == MetaSymbols(trainer_spec_)
       IN  IF trainer_spec_.unk_piece = "" \/ HasDuplicate(symbols)
           THEN /\ status_' = "configuration_error"
                /\ piece_pc' = "failed"
                /\ UNCHANGED meta_pieces_
           ELSE /\ meta_pieces_' = InsertMeta(symbols, 0, EmptyDB)
                /\ status_' = "ok"
                /\ piece_pc' = "meta"
    /\ UNCHANGED <<trainer_spec_, final_pieces_, model_proto, is_valid>>

\* Train() of a subclass leaves its ranked pieces in final_pieces_
Train(pieces) ==
    /\ piece_pc = "meta"
    /\ final_pieces_' = pieces
    /\ piece_pc' = "trained"
    /\ UNCHANGED <<trainer_spec_, meta_pieces_, status_, model_proto, is_valid>>

\* the piece table for ids id..size-1: a meta piece at its reserved id,
\* otherwise the next final piece
RECURSIVE FillPieces(_, _, _, _, _)
FillPieces(meta, final, id, size, out) ==
    IF id >= size THEN out
    ELSE IF id \in DOMAIN meta
    THEN FillPieces(meta, final, id + 1, size,
                    Append(out, [piece |-> meta[id].first, score |-> 0,
                                 type |-> meta[id].second]))
    ELSE IF final = <<>> THEN out
    ELSE FillPieces(meta, Tail(final), id + 1, size,
                    Append(out, [piece |-> Head(final).first,
                                 score |-> Head(final).second,
                                 type |-> "NORMAL"]))

\* Serialize without the comparison against vocab_size
Serialize_NoSizeCheck ==
    /\ piece_pc = "trained"
    /\ model_proto' = FillPieces(meta_pieces_, final_pieces_, 0,
                                 trainer_spec_.vocab_size, <<>>)
    /\ status_' = "ok"
    /\ piece_pc' = "serialized"
    /\ UNCHANGED <<trainer_spec_, meta_pieces_, final_pieces_, is_valid>>

Serialize ==
    /\ piece_pc = "trained"
    /\ IF Cardinality(DOMAIN meta_pieces_) + Len(final_pieces_)
            # trainer_spec_.vocab_size
       THEN /\ status_' = "size_mismatch"
            /\ piece_pc' = "failed"
            /\ UNCHANGED model_proto
       ELSE /\ model_proto' = FillPieces(meta_pieces_, final_pieces_, 0,
                                         trainer_spec_.vocab_size, <<>>)
            /\ status_' = "ok"
            /\ piece_pc' = "serialized"
    /\ UNCHANGED <<trainer_spec_, meta_pieces_, final_pieces_, is_valid>>

\* the configurations InitMetaPieces is run on
ControlSymbols == {"<s>", "</s>"}
UserDefinedSymbols == {"x", "<s>"}

\* lists of final pieces in descending order of score
FinalPool ==
    {[first |-> "a", second |-> -1], [first |-> "b", second |-> -2],
     [first |-> "c", second |-> -3]}
FinalLists ==
    {l \in Lists(FinalPool, MaxFinal) :
        \A i \in 1..(Len(l) - 1) : l[i].second > l[i + 1].second}

PieceInit ==
    /\ StoreInit
    /\ sorted_m = <<>>
    /\ sorted_v = <<>>
    /\ LoadIdle
    /\ split_before = EmptyDB
    /\ trainer_spec_ \in
         {[DefaultTrainerSpec EXCEPT !.unk_piece = u, !.control_symbols = c,
                                     !.user_defined_symbols = d, !.vocab_size = v] :
            u \in {"", "<unk>"}, c \in Lists(ControlSymbols, MaxControl),
            d \in Lists(UserDefinedSymbols, MaxUserDefined), v \in 1..MaxVocab}
    /\ meta_pieces_ = EmptyDB
    /\ final_pieces_ = <<>>
    /\ status_ = "ok"
    /\ model_proto = <<>>
    /\ piece_pc = "new"
    /\ is_valid = NoValid

PieceNext ==
    \/ InitMetaPieces /\ UNCHANGED <<storeVars, sortedVars, loadVars, split_before>>
    \/ \E pieces \in FinalLists :
          Train(pieces) /\ UNCHANGED <<storeVars, sortedVars, loadVars, split_before>>
    \/ Serialize /\ UNCHANGED <<storeVars, sortedVars, loadVars, split_before>>

PieceSpec == PieceInit /\ [][PieceNext]_vars

----------------------------------------------------------------------------
(* IsValidSentencePiece *)

CharCyrillicBe == 1073      \* U+0431, a Cyrillic letter
WhitespaceMarker == 9601    \* U+2581, the whitespace a piece carries

\* Unicode script of a code point; digits and the whitespace marker are
\* script-neutral
ScriptOf(c) ==
    IF c = CharCyrillicBe THEN "Cyrillic"
    ELSE IF IsDigit(c) \/ c = WhitespaceMarker THEN "Common"
    ELSE "Latin"

\* IsValidSentencePiece without the length test
IsValidSentencePiece_NoLengthCheck(piece) ==
    IF /\ trainer_spec_.split_by_whitespace
       /\ \E i \in 2..Len(piece) : piece[i] = WhitespaceMarker
    THEN FALSE
    ELSE IF /\ trainer_spec_.split_by_unicode_script
            /\ \E i, j \in 1..Len(piece) :
                  /\ ScriptOf(piece[i]) # "Common"
                  /\ ScriptOf(piece[j]) # "Common"
                  /\ ScriptOf(piece[i]) # ScriptOf(piece[j])
    THEN FALSE
    ELSE TRUE

\* length first, then the whitespace boundary (whitespace only where the
\* piece begins), then the script boundary
IsValidSentencePiece(piece) ==
    IF Len(piece) > trainer_spec_.max_sentencepiece_length
    THEN FALSE
    ELSE IF /\ trainer_spec_.split_by_whitespace
            /\ \E i \in 2..Len(piece) : piece[i] = WhitespaceMarker
    THEN FALSE
    ELSE IF /\ trainer_spec_.split_by_unicode_script
            /\ \E i, j \in 1..Len(piece) :
                  /\ ScriptOf(piece[i]) # "Common"
                  /\ ScriptOf(piece[j]) # "Common"
                  /\ ScriptOf(piece[i]) # ScriptOf(piece[j])
    THEN FALSE
    ELSE TRUE

\* a call of the const member function: only the returned value is new
CallIsValidSentencePiece(piece) ==
    /\ is_valid' = [op |-> "valid", piece |-> piece,
                    value |-> IsValidSentencePiece(piece)]
    /\ UNCHANGED <<trainer_spec_, meta_pieces_, final_pieces_, status_,
                   model_proto, piece_pc>>

\* the non-empty pieces IsValidSentencePiece is called on
ValidPieces ==
    Lists({CharA, CharCyrillicBe, CharZero + 1, WhitespaceMarker}, MaxPieceLen)
      \ {<<>>}

ValidInit ==
    /\ StoreInit
    /\ sorted_m = <<>>
    /\ sorted_v = <<>>
    /\ LoadIdle
    /\ split_before = EmptyDB
    /\ trainer_spec_ \in
         {[DefaultTrainerSpec EXCEPT !.max_sentencepiece_length = n,
                                     !.split_by_whitespace = w,
                                     !.split_by_unicode_script = u] :
            n \in 1..MaxPieceLimit, w \in BOOLEAN, u \in BOOLEAN}
    /\ meta_pieces_ = EmptyDB
    /\ final_pieces_ = <<>>
    /\ status_ = "ok"
    /\ model_proto = <<>>
    /\ piece_pc = "new"
    /\ is_valid = NoValid

ValidNext ==
    \E piece \in ValidPieces :
        /\ CallIsValidSentencePiece(piece)
        /\ UNCHANGED <<storeVars, sortedVars, loadVars, split_before>>

ValidSpec == ValidInit /\ [][ValidNext]_vars

----------------------------------------------------------------------------
(* Properties of the store, checked under Spec *)

\* C1 (as claimed): every Sentence stored by addSentenceToDB under id i and
\* neither updated nor deleted since is returned unchanged by
\* getSentenceFromDB(i), whatever bytes its text holds.
C1_RoundTrip ==
    \A i \in DOMAIN stored :
        Get(db, i, TRUE) = [status |-> "ok", value |-> <<stored[i]>>]

\* C2 (as claimed): getSentenceFromDB(id) of an id this instance never
\* inserted or updated throws the not-found error and returns nothing.
C2_NotFoundForOwnUnwritten ==
    (result.op = "get" /\ result.index \notin mine)
        => (result.status = "out_of_range" /\ result.value = <<>>)

\* C2 (amended): getSentenceFromDB(id) of an id that neither this instance
\* nor an earlier instance on the same store location inserted or updated
\* throws the not-found error and returns nothing.
C2_NotFoundForNeverWritten ==
    (result.op = "get" /\ result.index \notin ever)
        => (result.status = "out_of_range" /\ result.value = <<>>)

\* a second instance, on a store the first one left records in, asks for
\* an id nobody wrote
C2_Witness ==
    /\ result.op = "get"
    /\ result.index \notin ever
    /\ result.status = "out_of_range"
    /\ instance > 1
    /\ DOMAIN db # {}

\* C4: no deduplication.  On a store that was empty at construction, after
\* n successful insertions and no delete or update the store holds n
\* records and getDBSize() returns n, also when texts repeat.
C4_NoDedup ==
    pristine =>
        /\ Cardinality(DOMAIN db) = adds
        /\ (result.op = "size" /\ result.status = "ok") => result.count = adds

\* two insertions of the same sentence, then getDBSize() = 2
C4_Witness ==
    /\ pristine
    /\ result.op = "size" /\ result.status = "ok"
    /\ result.count = 2
    /\ \E k1, k2 \in DOMAIN db : k1 # k2 /\ db[k1] = db[k2]

\* C8: within one instance the k-th successful addSentenceToDB writes key
\* k-1 and touches no other key, whatever other calls come in between, and
\* current_index_ never decreases.
C8_SequentialIds ==
    /\ [](current_index_ = adds)
    /\ [][(instance' = instance) => current_index_' >= current_index_]_vars
    /\ [][(adds' = adds + 1) =>
            /\ to_string(adds) \in DOMAIN db'
            /\ \A k \in DOMAIN db' \ {to_string(adds)} :
                    k \in DOMAIN db /\ db'[k] = db[k]
            /\ \A k \in DOMAIN db : k \in DOMAIN db']_vars

\* the second insertion wrote key "1" although key "0" had been removed
C8_Witness ==
    /\ result.op = "add" /\ result.status = "ok"
    /\ adds = 2 /\ result.index = 1
    /\ to_string(0) \notin DOMAIN db
    /\ to_string(1) \in DOMAIN db

\* C9 (as claimed): a successful updateSentenceInDB(id, s) leaves
\* getSentenceFromDB(id) returning s, every other record unchanged and
\* current_index_ unchanged, whether or not id was present.
C9_Upsert ==
    /\ []((result.op = "update" /\ result.status = "ok") =>
            Get(db, result.index, TRUE) = [status |-> "ok", value |-> result.value])
    /\ [][(result'.op = "update" /\ result'.status = "ok") =>
            /\ current_index_' = current_index_
            /\ \A k \in (DOMAIN db \cup DOMAIN db') \ {to_string(result'.index)} :
                    k \in DOMAIN db /\ k \in DOMAIN db' /\ db'[k] = db[k]]_vars

\* C10 (as claimed): after n insertions into an empty store, n > 10
\* included, a full scan visits the keys of ids 0, 1, ..., n-1 in that order.
C10_ScanInInsertionOrder ==
    (pristine /\ result.op = "load" /\ result.status = "ok") =>
        result.keys = [i \in 1..adds |-> to_string(i - 1)]

\* C14 (as claimed): a record changes only through updateSentenceInDB and
\* disappears only through removeSentenceFromDB; every addSentenceToDB
\* writes an id that held no record, adds exactly one record and leaves the
\* records already stored unchanged.
C14_InsertOnlyCreates ==
    /\ [][\A k \in DOMAIN db :
            /\ k \notin DOMAIN db' => result'.op = "remove"
            /\ (k \in DOMAIN db' /\ db'[k] # db[k]) => result'.op = "update"]_vars
    /\ [][(adds' = adds + 1) =>
            /\ to_string(adds) \notin DOMAIN db
            /\ Cardinality(DOMAIN db') = Cardinality(DOMAIN db) + 1
            /\ \A k \in DOMAIN db : k \in DOMAIN db' /\ db'[k] = db[k]]_vars

\* C15: an addSentenceToDB whose Put is rejected throws, leaves the store
\* and current_index_ as they were, and the next successful insertion
\* writes the id the failed one would have written.
C15_FailedInsertKeepsIndex ==
    /\ [][(result'.op = "add" /\ result'.status # "ok") =>
            /\ result'.status = "runtime_error"
            /\ result'.index = current_index_
            /\ db' = db
            /\ current_index_' = current_index_]_vars
    /\ [][(result.op = "add" /\ result.status # "ok" /\ adds' = adds + 1) =>
            /\ result'.index = result.index
            /\ to_string(result.index) \in DOMAIN db'
            /\ current_index_' = result.index + 1]_vars

\* an insertion failed after one had succeeded
C15_Witness ==
    /\ result.op = "add" /\ result.status = "runtime_error"
    /\ result.index = 1
    /\ current_index_ = 1
    /\ DOMAIN db = {to_string(0)}

\* C16: after a successful removeSentenceFromDB(id) the id is not found,
\* every other record is unchanged, and the store holds one record less if
\* id was present and as many as before if it was absent.
C16_RemoveFrame ==
    /\ []((result.op = "remove" /\ result.status = "ok") =>
            Get(db, result.index, TRUE) = [status |-> "out_of_range", value |-> <<>>])
    /\ [][(result'.op = "remove" /\ result'.status = "ok") =>
            LET key == to_string(result'.index)
            IN  /\ \A k \in (DOMAIN db \cup DOMAIN db') \ {key} :
                      k \in DOMAIN db /\ k \in DOMAIN db' /\ db'[k] = db[k]
                /\ Len(IterationOrder(DOMAIN db')) =
                      Len(IterationOrder(DOMAIN db))
                        - (IF key \in DOMAIN db THEN 1 ELSE 0)
                /\ current_index_' = current_index_]_vars

\* of two inserted records the first has been removed
C16_Witness ==
    /\ result.op = "remove" /\ result.status = "ok"
    /\ result.index = 0
    /\ adds = 2 /\ mine = {0, 1}
    /\ DOMAIN db = {to_string(1)}

\* C17: a trainer constructed after an earlier one finds the earlier one's
\* records in the store while current_index_ restarts at 0: getDBSize()
\* called first returns their number, and an insertion whose id an earlier
\* instance wrote overwrites that record instead of adding one.
C17_RunsCollide ==
    /\ [][(instance' = instance + 1) =>
            (db' = db /\ current_index_' = 0)]_vars
    /\ [][(instance > 1 /\ result.op = "none"
              /\ result'.op = "size" /\ result'.status = "ok") =>
            result'.count = Cardinality(DOMAIN db)]_vars
    /\ [][(adds' = adds + 1 /\ instance > 1 /\ adds \in ever \ mine
              /\ to_string(adds) \in DOMAIN db) =>
            /\ DOMAIN db' = DOMAIN db
            /\ db'[to_string(adds)] = EncodeValue(stored'[adds])
            /\ \A k \in DOMAIN db \ {to_string(adds)} : db'[k] = db[k]]_vars

\* the second trainer's first insertion left the store with the two ids
\* the first trainer wrote
C17_Witness ==
    /\ instance = 2
    /\ result.op = "add" /\ result.status = "ok"
    /\ adds = 1 /\ mine = {0}
    /\ ever = {0, 1}
    /\ DOMAIN db = {to_string(0), to_string(1)}

----------------------------------------------------------------------------
(* Properties of getSentenceFromDB on a store found at construction,
   checked under OpenSpec *)

\* the record under id i is there and its value holds no separator
LacksSeparator(store, i) ==
    /\ to_string(i) \in DOMAIN store
    /\ Find(store[to_string(i)], NUL) = npos

\* a failed getSentenceFromDB returns no Sentence and no
\* getSentenceFromDB changes the store
C18_GetFrame ==
    [][(result'.op = "get") =>
        /\ db' = db
        /\ current_index_' = current_index_
        /\ (to_string(result'.index) \notin DOMAIN db
              \/ LacksSeparator(db, result'.index))
             => (result'.status # "ok" /\ result'.value = <<>>)]_vars

\* C18 (as claimed): getSentenceFromDB(id) throws the same not-found error
\* when no record exists under id and when the stored value lacks the
\* separator, returns no Sentence and leaves the store unchanged.
C18_SameNotFoundKind ==
    /\ C18_GetFrame
    /\ []((result.op = "get"
              /\ (to_string(result.index) \notin DOMAIN db
                    \/ LacksSeparator(db, result.index)))
            => result.status = "out_of_range")

\* C18 (amended): getSentenceFromDB(id) throws the not-found error
\* (std::out_of_range) when no record exists under id or the read fails,
\* and a different error (std::runtime_error) when the value read lacks
\* the separator; in neither case does it return a Sentence or change the
\* store.
C18_DistinctErrorKinds ==
    /\ C18_GetFrame
    /\ [](\A i \in Ids :
            /\ to_string(i) \notin DOMAIN db
                 => Get(db, i, TRUE) = [status |-> "out_of_range", value |-> <<>>]
            /\ LacksSeparator(db, i)
                 => Get(db, i, TRUE) = [status |-> "runtime_error", value |-> <<>>]
            /\ (to_string(i) \in DOMAIN db)
                 => Get(db, i, FALSE) = [status |-> "out_of_range", value |-> <<>>])
    /\ []((result.op = "get" /\ to_string(result.index) \notin DOMAIN db)
            => result.status = "out_of_range")
    /\ []((result.op = "get" /\ LacksSeparator(db, result.index))
            => result.status \in {"runtime_error", "out_of_range"})

\* getSentenceFromDB has read a value without separator
C18_Witness ==
    /\ result.op = "get"
    /\ LacksSeparator(db, result.index)
    /\ result.status = "runtime_error"
    /\ result.value = <<>>

----------------------------------------------------------------------------
(* Properties of InitMetaPieces and Serialize, checked under PieceSpec *)

\* InitMetaPieces has returned ok
MetaDone ==
    \/ piece_pc \in {"meta", "trained", "serialized"}
    \/ piece_pc = "failed" /\ status_ = "size_mismatch"

FreeIds(size) == (0..(size - 1)) \ DOMAIN meta_pieces_

\* the k-th of them in ascending order
FreeId(size, k) ==
    CHOOSE id \in FreeIds(size) :
        Cardinality({j \in FreeIds(size) : j < id}) = k - 1

\* Serialize has returned
SerializeDone ==
    \/ piece_pc = "serialized"
    \/ piece_pc = "failed" /\ status_ = "size_mismatch"

----------------------------------------------------------------------------
(* Properties of IsValidSentencePiece, checked under ValidSpec *)

\* C12: IsValidSentencePiece returns false for every piece of more than
\* max_sentencepiece_length code points, whatever split_by_whitespace and
\* split_by_unicode_script are, and a call changes neither the trainer's
\* members nor the store.
C12_TooLongIsInvalid ==
    /\ []((is_valid.op = "valid"
              /\ Len(is_valid.piece) > trainer_spec_.max_sentencepiece_length)
            => is_valid.value = FALSE)
    /\ [][(is_valid'.op = "valid") =>
            UNCHANGED <<storeVars, sortedVars, loadVars, split_before,
                        trainer_spec_, meta_pieces_, final_pieces_, status_,
                        model_proto, piece_pc>>]_vars

\* a piece of two Latin letters, longer than the limit of one, is
\* rejected with both split flags off
C12_Witness ==
    /\ is_valid = [op |-> "valid", piece |-> <<CharA, CharA>>, value |-> FALSE]
    /\ trainer_spec_.max_sentencepiece_length = 1
    /\ ~trainer_spec_.split_by_whitespace
    /\ ~trainer_spec_.split_by_unicode_script

----------------------------------------------------------------------------
(* Properties of SplitSentencesByWhitespace, checked under SplitSpec *)

\* the records of a store as the code reads them: (key, text, count)
Records(store) ==
    {[key |-> k, sentence |-> DecodeValue(store[k]).value[1]] : k \in DOMAIN store}

\* the whitespace-delimited tokens of a text
WordsOf(text) == SplitIntoWords(text, <<>>, <<>>)

WordSet(text) == {WordsOf(text)[i] : i \in 1..Len(WordsOf(text))}

\* number of occurrences of the token w in a text
OccurrencesOfWord(text, w) ==
    Cardinality({i \in 1..Len(WordsOf(text)) : WordsOf(text)[i] = w})

RECURSIVE SumOver(_, _)
SumOver(records, weight) ==
    IF records = {} THEN 0
    ELSE LET r == CHOOSE x \in records : TRUE
         IN  weight[r] + SumOver(records \ {r}, weight)

SplitDone == result.op = "split" /\ result.status = "ok"

\* C6: after the split the store holds exactly one record per distinct
\* token of the sentences it held before, with the summed count of the
\* sentences the token occurs in (once per occurrence), and no record of
\* before the split remains.
C6_TokenRecords ==
    SplitDone =>
        LET before == Records(split_before)
            after == Records(db)
            allWords == UNION {WordSet(r.sentence.first) : r \in before}
            Mass(w) == SumOver(before,
                               [r \in before |-> r.sentence.second
                                    * OccurrencesOfWord(r.sentence.first, w)])
        IN  /\ \A w \in allWords :
                  /\ Cardinality({r \in after : r.sentence.first = w}) = 1
                  /\ \A r \in after : r.sentence.first = w => r.sentence.second = Mass(w)
            /\ \A r \in after : r.sentence.first \in allWords
            /\ DOMAIN db \cap DOMAIN split_before = {}

\* a token occurring in two sentences, and twice in one, has been merged
C6_Witness ==
    /\ SplitDone
    /\ Cardinality(DOMAIN split_before) = 3
    /\ Cardinality(DOMAIN db) = 2
    /\ \E r \in Records(db) : r.sentence = [first |-> <<CharA + 1>>, second |-> 3]
    /\ \E r \in Records(db) : r.sentence = [first |-> <<CharA>>, second |-> 3]

TotalMass(store) ==
    LET counted == {r \in Records(store) : WordsOf(r.sentence.first) # <<>>}
    IN  SumOver(counted, [r \in counted |-> r.sentence.second])

\* C7 (as claimed): the counts in the store after the split sum to the
\* counts before it, whitespace-only sentences left out.
C7_MassPreserved ==
    SplitDone => TotalMass(db) = TotalMass(split_before)

\* C7 (amended): the counts after the split sum to the counts before it,
\* each multiplied by the number of tokens of its sentence.
C7_MassPerToken ==
    SplitDone =>
        LET before == Records(split_before)
        IN  TotalMass(db) =
              SumOver(before, [r \in before |->
                                 r.sentence.second * Len(WordsOf(r.sentence.first))])

\* a two-token sentence and a whitespace-only sentence have been split
C7_Witness ==
    /\ SplitDone
    /\ \E r \in Records(split_before) : Len(WordsOf(r.sentence.first)) = 2
    /\ \E r \in Records(split_before) : r.sentence.first = <<CharSpace>>
    /\ TotalMass(db) > TotalMass(split_before)

----------------------------------------------------------------------------
(* Properties of LoadSentences, checked under LoadSpec *)

\* C5: with a cap N >= 1, at every point during and after LoadSentences the
\* number of sentences it has written to the store is at most N.
C5_AtMostCap ==
    (load_pc # "idle" /\ input_sentence_size >= 1) =>
        /\ adds <= input_sentence_size
        /\ Cardinality(DOMAIN db) <= input_sentence_size

\* the source held more non-empty lines than the cap and was drained
C5_Witness ==
    /\ load_pc = "done"
    /\ input_sentence_size >= 1
    /\ seen > input_sentence_size
    /\ adds = input_sentence_size
    /\ Cardinality(DOMAIN db) = input_sentence_size

----------------------------------------------------------------------------
(* Properties of Sorted, checked under SortedSpec *)

Occurrences(l, p) == Cardinality({i \in 1..Len(l) : l[i] = p})

\* C3: Sorted returns a permutation of its argument, non-increasing by
\* value, and among pairs of equal value the smaller key comes first.
C3_SortedOrder ==
    sorted_v # <<>> =>
        LET v == sorted_v[1]
        IN  /\ Len(v) = Len(sorted_m)
            /\ \A p \in SortPairs : Occurrences(v, p) = Occurrences(sorted_m, p)
            /\ \A i, j \in 1..Len(v) :
                  i < j =>
                    /\ v[i].second >= v[j].second
                    /\ (v[i].second = v[j].second
                          => ~BytewiseLess(v[j].first, v[i].first))

\* an unsorted argument with a tie in the value has been sorted
C3_Witness ==
    /\ sorted_v # <<>>
    /\ Len(sorted_m) = 3
    /\ sorted_v[1] # sorted_m
    /\ sorted_v[1][1].second = sorted_v[1][2].second
    /\ BytewiseLess(sorted_v[1][1].first, sorted_v[1][2].first)
    /\ sorted_v[1][2].second > sorted_v[1][3].second

====
